---- MODULE Spec2Model ----
(***************************************************************************)
(* Model of rspt2spectra's readfile module: the three readers hyb,         *)
(* self_energy and pdos, each a function from file contents and scalar     *)
(* arguments to either returned arrays or a fatal outcome (an exception    *)
(* or sys.exit).  Files are modelled by their content; numpy arrays by     *)
(* functions over 0-based index ranges, exactly as the code indexes them.  *)
(* The numpy is one that still has the aliases np.int and np.complex the   *)
(* code uses (before 1.24); numbers are integers, and products with eV     *)
(* and quotients by eV are exact.  int_max_str_digits is the interpreter's *)
(* limit on the digits of a string converted by int(), the value of        *)
(* sys.get_int_max_str_digits(); 0 is no limit, which is also how an       *)
(* interpreter older than the limit behaves.                               *)
(***************************************************************************)
EXTENDS Integers, Sequences, FiniteSets, TLC

VARIABLES op, args, pc, result, int_max_str_digits

vars == <<op, args, pc, result, int_max_str_digits>>

(***************************************************************************)
(* Bounds of the checked input space.                                      *)
(***************************************************************************)
MaxNorb == 2
MaxRows == 3
MaxSeed == 1
MaxOnes == 2
MaxNorbPdos == 6

(***************************************************************************)
(* rspt2spectra.constants.eV: the unit-conversion constant imported at     *)
(* readfile.py:17.  Its defining module is not part of the sources; any    *)
(* fixed number other than 0 and 1 serves, so that scaling by it, the      *)
(* identity and division by it are three different things.                 *)
(***************************************************************************)
eV == 13

Range(n) == 0 .. (n - 1)
\* Python's len of an array held as a function over 0..n-1
len(a) == Cardinality(DOMAIN a)
Min(a, b) == IF a < b THEN a ELSE b
Max(a, b) == IF a > b THEN a ELSE b

(***************************************************************************)
(* Complex numbers with integer parts; x + y*1j is Cx(x, y).               *)
(***************************************************************************)
Cx(x, y) == [re |-> x, im |-> y]
CZero == Cx(0, 0)
CAdd(a, b) == Cx(a.re + b.re, a.im + b.im)

(***************************************************************************)
(* Outcomes of a call.  kind is "return", "raise" (a Python exception of   *)
(* class exc) or "exit" (sys.exit with message msg).  form tells which     *)
(* arrays a return carries.                                                *)
(***************************************************************************)
Blank == [n |-> 0, m |-> 0, d |-> <<>>]
NoResult ==
    [kind |-> "none", exc |-> "", msg |-> "", form |-> "", w |-> <<>>,
     table |-> Blank, full |-> <<>>]
Raise(e) == [NoResult EXCEPT !.kind = "raise", !.exc = e]
Exit(s) == [NoResult EXCEPT !.kind = "exit", !.exc = "SystemExit", !.msg = s]
ReturnTable(w, t) ==
    [NoResult EXCEPT !.kind = "return", !.form = "table", !.w = w, !.table = t]
ReturnFull(w, h) ==
    [NoResult EXCEPT !.kind = "return", !.form = "full", !.w = w, !.full = h]

(***************************************************************************)
(* Files.  A path argument is None (given = FALSE), names no file          *)
(* (exists = FALSE) or names a text file of whitespace-separated rows.     *)
(***************************************************************************)
NoneFile == [given |-> FALSE, exists |-> FALSE, rows |-> <<>>]
MissingFile == [given |-> TRUE, exists |-> FALSE, rows |-> <<>>]
TextFile(rows) == [given |-> TRUE, exists |-> TRUE, rows |-> rows]

(***************************************************************************)
(* np.loadtxt with its defaults: a None or unreadable path and rows of     *)
(* unequal length raise; the parsed array is squeezed, so a file of one    *)
(* row or of one column loads as a 1-d array (an empty file too), and      *)
(* only a file of at least two rows and two columns loads as a 2-d array.  *)
(* data is kept for the 2-d case, the only one the readers can index.      *)
(***************************************************************************)
Loaded(ndim, R, C, rows) ==
    [ok |-> TRUE, exc |-> "", ndim |-> ndim, n |-> R, m |-> C,
     d |-> [r \in Range(R) |-> [c \in Range(C) |-> rows[r + 1][c + 1]]]]
LoadFailed(e) ==
    [ok |-> FALSE, exc |-> e, ndim |-> 0, n |-> 0, m |-> 0, d |-> <<>>]
loadtxt(f) ==
    IF ~f.given THEN LoadFailed("ValueError")
    ELSE IF ~f.exists THEN LoadFailed("OSError")
    ELSE IF \E r \in 1 .. Len(f.rows) : Len(f.rows[r]) # Len(f.rows[1])
    THEN LoadFailed("ValueError")
    ELSE LET R == Len(f.rows)
             C == IF R = 0 THEN 0 ELSE Len(f.rows[1])
         IN  IF R >= 2 /\ C >= 2 THEN Loaded(2, R, C, f.rows)
             ELSE IF R = 1 /\ C = 1 THEN Loaded(0, 0, 0, <<>>)
             ELSE Loaded(1, 0, 0, <<>>)

(***************************************************************************)
(* Array helpers.  A 2-d array is [n, m, d] with d[r][c], 0-based.         *)
(***************************************************************************)
Arr(n, m, d) == [n |-> n, m |-> m, d |-> d]
\* a[:, lo:hi] (0 <= lo <= hi): slicing clips to the columns present
ColSlice(a, lo, hi) ==
    LET k == Max(0, Min(hi, a.m) - lo)
    IN  Arr(a.n, k, [r \in Range(a.n) |-> [c \in Range(k) |-> a.d[r][lo + c]]])
\* np.transpose(a), a.T
Transpose(a) ==
    Arr(a.m, a.n, [c \in Range(a.m) |-> [r \in Range(a.n) |-> a.d[r][c]]])
\* eV*a
ScaleEV(a) ==
    Arr(a.n, a.m, [r \in Range(a.n) |-> [c \in Range(a.m) |-> eV * a.d[r][c]]])
\* numpy broadcasting of two 2-d shapes
DimOk(x, y) == x = y \/ x = 1 \/ y = 1
DimOut(x, y) == IF x = 1 THEN y ELSE x
Broadcastable(a, b) == DimOk(a.n, b.n) /\ DimOk(a.m, b.m)
Pick(a, r, c) == a.d[IF a.n = 1 THEN 0 ELSE r][IF a.m = 1 THEN 0 ELSE c]
\* re + im*1j for real arrays re, im of broadcastable shapes
ComplexOf(re, im) ==
    LET n == DimOut(re.n, im.n)
        m == DimOut(re.m, im.m)
    IN  Arr(n, m, [r \in Range(n) |->
                     [c \in Range(m) |-> Cx(Pick(re, r, c), Pick(im, r, c))]])

(***************************************************************************)
(* hyb: the parts of readfile.py:21-101.                                   *)
(***************************************************************************)
\* Number of non-equivalent correlated spin-orbitals
nc(norb, spinpol) == IF spinpol THEN 2 * norb ELSE norb

\* hyb_branch with "or" for "and" in the elif: any off-diagonal argument
\* selects the off-diagonal branch
hyb_branch_any(file_re_off, file_im_off, outfile) ==
    IF ~file_re_off.given /\ ~file_im_off.given /\ ~outfile.given
    THEN "diagonal"
    ELSE "offdiagonal"

\* which branch of the if / elif / else on the three optional arguments
hyb_branch(file_re_off, file_im_off, outfile) ==
    IF ~file_re_off.given /\ ~file_im_off.given /\ ~outfile.given
    THEN "diagonal"
    ELSE IF file_re_off.given /\ file_im_off.given /\ outfile.given
    THEN "offdiagonal"
    ELSE "wrong"

search_phrase == "dumpdata: Mask of the printed off-diagonal elements:"

(***************************************************************************)
(* Text.  A line is the sequence of its whitespace-separated tokens and a  *)
(* token is the sequence of its characters; a stretch of text that holds   *)
(* no character of a numeral (a word, the marker phrase) is kept as one    *)
(* piece.                                                                  *)
(***************************************************************************)
Word(text) == << text >>

\* grep's test of one line: the phrase occurs in it
Matches(line) == \E k \in 1 .. Len(line) : line[k] = Word(search_phrase)
\* grep -A N prints line k when a matching line lies at most N lines above
Selected(lines, N, k) ==
    \E p \in 1 .. k : p >= k - N /\ Matches(lines[p])
\* the output of grep -A N over lines 1..k, "--" between separate groups
RECURSIVE grep_A(_, _, _)
grep_A(lines, N, k) ==
    IF k = 0 THEN <<>>
    ELSE LET before == grep_A(lines, N, k - 1)
         IN  IF ~Selected(lines, N, k) THEN before
             ELSE IF before # <<>> /\ ~Selected(lines, N, k - 1)
             THEN before \o << << <<"-", "-">> >>, lines[k] >>
             ELSE Append(before, lines[k])
head(s, n) == SubSeq(s, 1, Min(n, Len(s)))
tail(s, n) == SubSeq(s, Len(s) - Min(n, Len(s)) + 1, Len(s))
\* cmd taking the last match instead of the first (grep ... | tail alone)
cmd_last_match(outfile, norb) ==
    LET lines == IF outfile.exists THEN outfile.rows ELSE <<>>
    IN  tail(grep_A(lines, 2 * norb, Len(lines)), 2 * norb)

\* the pipeline grep -A 2*norb ... | head -(2*norb+1) | tail -(2*norb); a
\* pipeline's exit status is tail's, which is 0 whatever grep found, so
\* check_output never raises CalledProcessError
cmd(outfile, norb) ==
    LET lines == IF outfile.exists THEN outfile.rows ELSE <<>>
    IN  tail(head(grep_A(lines, 2 * norb, Len(lines)), 2 * norb + 1), 2 * norb)

\* string.split(): the tokens of all lines, in order
RECURSIVE split(_)
split(lines) ==
    IF lines = <<>> THEN <<>> ELSE Head(lines) \o split(Tail(lines))

(***************************************************************************)
(* The conversion of one token by np.array(..., dtype=np.int): the token   *)
(* is read as int() reads it, an optional sign followed by decimal digits  *)
(* with single underscores allowed between digits and, when the            *)
(* interpreter limits them, no more digits than int_max_str_digits; the    *)
(* value is stored in a 64-bit integer.                                    *)
(***************************************************************************)
\* sys.int_info.default_max_str_digits
default_max_str_digits == 4300
Digits == <<"0", "1", "2", "3", "4", "5", "6", "7", "8", "9">>
IsDigit(c) == \E d \in 1 .. 10 : Digits[d] = c
DigitValue(c) == (CHOOSE d \in 1 .. 10 : Digits[d] = c) - 1
Negative(t) == t # <<>> /\ t[1] = "-"
\* the token without its sign
Body(t) == IF t # <<>> /\ (t[1] = "+" \/ t[1] = "-") THEN Tail(t) ELSE t
\* int() accepts the token
IsInt(t) ==
    LET b == Body(t)
    IN  /\ b # <<>>
        /\ \A k \in 1 .. Len(b) :
              \/ IsDigit(b[k])
              \/ /\ b[k] = "_"
                 /\ k > 1 /\ k < Len(b)
                 /\ IsDigit(b[k - 1]) /\ IsDigit(b[k + 1])
        /\ \/ int_max_str_digits = 0
           \/ Len(SelectSeq(b, IsDigit)) <= int_max_str_digits
\* the number of zeros at the head of ds[lo .. hi]
RECURSIVE LeadingZeros(_, _, _)
LeadingZeros(ds, lo, hi) ==
    IF lo > hi THEN 0
    ELSE IF lo = hi THEN (IF ds[lo] = "0" THEN 1 ELSE 0)
    ELSE LET mid == (lo + hi) \div 2
             left == LeadingZeros(ds, lo, mid)
         IN  IF left < mid - lo + 1 THEN left
             ELSE left + LeadingZeros(ds, mid + 1, hi)
DropZeros(ds) == SubSeq(ds, LeadingZeros(ds, 1, Len(ds)) + 1, Len(ds))
\* the digits of an accepted token from its first non-zero digit on
Significant(t) == DropZeros(SelectSeq(Body(t), IsDigit))
\* the digits of 2^63 - 1 and of 2^63, the largest magnitudes an int64 holds
Int64Max ==
    <<"9", "2", "2", "3", "3", "7", "2", "0", "3", "6", "8", "5", "4", "7", "7",
      "5", "8", "0", "7">>
Int64Min ==
    <<"9", "2", "2", "3", "3", "7", "2", "0", "3", "6", "8", "5", "4", "7", "7",
      "5", "8", "0", "8">>
\* numerals a and b of the same length: a <= b
NumeralLeq(a, b) ==
    ~\E k \in 1 .. Len(a) :
        /\ DigitValue(a[k]) > DigitValue(b[k])
        /\ \A q \in 1 .. (k - 1) : a[q] = b[q]
\* the value of an accepted token fits the array's int64 items
FitsInt64(t) ==
    LET ds == Significant(t)
    IN  \/ Len(ds) < Len(Int64Max)
        \/ /\ Len(ds) = Len(Int64Max)
           /\ NumeralLeq(ds, IF Negative(t) THEN Int64Min ELSE Int64Max)
RECURSIVE NumeralValue(_)
NumeralValue(ds) ==
    IF ds = <<>> THEN 0
    ELSE 10 * NumeralValue(SubSeq(ds, 1, Len(ds) - 1)) + DigitValue(ds[Len(ds)])
\* int() of an accepted token
IntOf(t) ==
    IF Negative(t) THEN 0 - NumeralValue(Significant(t))
    ELSE NumeralValue(Significant(t))
\* item == 1 of the array; a numeral of several significant digits is not 1
IsOne(t) == Len(Significant(t)) = 1 /\ IntOf(t) = 1

\* np.array(string.split(), dtype=np.int).reshape(2*norb, 2*norb), then
\* mask == 1 and, without spin polarization, mask[:norb, :norb]; the tokens
\* are converted in order, the first one that cannot be ends the call
mask(string, norb, spinpol) ==
    LET toks == split(string)
        N == 2 * norb
        k == IF spinpol THEN N ELSE norb
        bad == { t \in 1 .. Len(toks) : ~IsInt(toks[t]) \/ ~FitsInt64(toks[t]) }
        first == CHOOSE t \in bad : \A u \in bad : t <= u
    IN  IF bad # {}
        THEN [ok |-> FALSE, n |-> 0, d |-> <<>>,
              exc |-> IF IsInt(toks[first]) THEN "OverflowError"
                      ELSE "ValueError"]
        ELSE IF Len(toks) # N * N
        THEN [ok |-> FALSE, n |-> 0, d |-> <<>>, exc |-> "ValueError"]
        ELSE [ok |-> TRUE, n |-> k, exc |-> "",
              d |-> [i \in Range(k) |->
                       [j \in Range(k) |-> IsOne(toks[i * N + j + 1])]]]

\* diagonal_fill copying row 0 of h_diagonal into every diagonal cell
diagonal_fill_row0(h_diagonal, n, nw) ==
    [i \in Range(n) |-> [j \in Range(n) |-> [m \in Range(nw) |->
        IF i = j THEN h_diagonal.d[0][m] ELSE CZero]]]

\* h = np.zeros((nc, nc, len(w))) followed by h[i, i, :] = h_diagonal[i, :]
diagonal_fill(h_diagonal, n, nw) ==
    [i \in Range(n) |-> [j \in Range(n) |-> [m \in Range(nw) |->
        IF i = j THEN h_diagonal.d[i][m] ELSE CZero]]]

\* scan with the loops exchanged: rows outside, columns inside
scan_rowmajor(s, n) == [i |-> s \div n, j |-> s % n]

\* cell s of the scan "for j in range(nc): for i in range(nc)"
scan(s, n) == [i |-> s % n, j |-> s \div n]

\* the off-diagonal loops from scan position s on, n columns consumed so far
RECURSIVE offdiagonal_fill(_, _, _, _, _, _, _)
offdiagonal_fill(h, msk, re, im, nw, s, n) ==
    LET size == msk.n
        i == scan(s, size).i
        j == scan(s, size).j
    IN  IF s >= size * size THEN [ok |-> TRUE, exc |-> "", h |-> h]
        ELSE IF ~msk.d[i][j]
        THEN offdiagonal_fill(h, msk, re, im, nw, s + 1, n)
        ELSE IF n >= re.m \/ n >= im.m
        THEN [ok |-> FALSE, exc |-> "IndexError", h |-> h]
        ELSE IF re.n # im.n \/ re.n # nw
        THEN [ok |-> FALSE, exc |-> "ValueError", h |-> h]
        ELSE offdiagonal_fill(
                 [h EXCEPT ![i][j] = [m \in Range(nw) |->
                     CAdd(h[i][j][m], Cx(re.d[m][n], im.d[m][n]))]],
                 msk, re, im, nw, s + 1, n + 1)

\* readfile.py:54-99, the branch that also reads off-diagonal functions
hyb_offdiagonal(w, h_diagonal, norb, spinpol, file_re_off, file_im_off, outfile) ==
    LET size == nc(norb, spinpol)
        nw == len(w)
        re0 == loadtxt(file_re_off)
        im0 == loadtxt(file_im_off)
        re == ScaleEV(ColSlice(re0, 1, re0.m))
        im == ScaleEV(ColSlice(im0, 1, im0.m))
        msk == mask(cmd(outfile, norb), norb, spinpol)
        filled == offdiagonal_fill(diagonal_fill(h_diagonal, size, nw),
                                   msk, re, im, nw, 0, 0)
    IN  IF ~re0.ok THEN Raise(re0.exc)
        ELSE IF re0.ndim < 2 THEN Raise("IndexError")
        ELSE IF ~im0.ok THEN Raise(im0.exc)
        ELSE IF im0.ndim < 2 THEN Raise("IndexError")
        ELSE IF ~msk.ok THEN Raise(msk.exc)
        ELSE IF h_diagonal.n < size THEN Raise("IndexError")
        ELSE IF ~filled.ok THEN Raise(filled.exc)
        ELSE ReturnFull(w, filled.h)

\* w = eV*re[:, 0], over the mesh points 0..R-1
mesh(re) == [m \in Range(re.n) |-> eV * re.d[m][0]]

\* diagonal_columns starting one column late
diagonal_columns_from5(a, size) == ScaleEV(Transpose(ColSlice(a, 5, 5 + size)))

\* eV*np.transpose(a[:, 4:4+nc])
diagonal_columns(a, size) == ScaleEV(Transpose(ColSlice(a, 4, 4 + size)))

hyb(file_re, file_im, norb, spinpol, file_re_off, file_im_off, outfile, return_as_full_matrix) ==
    LET size == nc(norb, spinpol)
        re0 == loadtxt(file_re)
        im0 == loadtxt(file_im)
        w == mesh(re0)
        re == diagonal_columns(re0, size)
        im == diagonal_columns(im0, size)
        h_diagonal == ComplexOf(re, im)
        branch == hyb_branch(file_re_off, file_im_off, outfile)
    IN  IF ~re0.ok THEN Raise(re0.exc)
        ELSE IF ~im0.ok THEN Raise(im0.exc)
        ELSE IF re0.ndim < 2 \/ im0.ndim < 2 THEN Raise("IndexError")
        ELSE IF ~Broadcastable(re, im) THEN Raise("ValueError")
        ELSE IF branch = "diagonal"
        THEN IF return_as_full_matrix
             THEN IF h_diagonal.n < size THEN Raise("IndexError")
                  ELSE ReturnFull(w, diagonal_fill(h_diagonal, size, len(w)))
             ELSE ReturnTable(w, h_diagonal)
        ELSE IF branch = "offdiagonal"
        THEN hyb_offdiagonal(w, h_diagonal, norb, spinpol,
                             file_re_off, file_im_off, outfile)
        ELSE Exit("Wrong input parameters.")

(***************************************************************************)
(* The inputs of hyb that are checked.  Table entries differ from cell to  *)
(* cell and from file to file, so that a wrong row, column or file shows.  *)
(***************************************************************************)
Table(R, C, base) ==
    TextFile([r \in 1 .. R |-> [c \in 1 .. C |-> base + 40 * (r - 1) + (c - 1)]])
Ragged(C, base) ==
    TextFile(<< [c \in 1 .. C |-> base + c], [c \in 1 .. C + 1 |-> base + c] >>)

\* the text of a mask: N lines of N tokens, the token one at the cells of
\* ones (a cell is numbered i*N + j), other at the remaining cells
MaskLinesOf(ones, N, one, other) ==
    [i \in 1 .. N |-> [j \in 1 .. N |->
        IF (i - 1) * N + (j - 1) \in ones THEN one ELSE other]]
\* the same with the tokens 1 and other, one character each
MaskLines(ones, N, other) == MaskLinesOf(ones, N, <<"1">>, <<other>>)
MarkerLine == << Word(search_phrase) >>
TextLine == << Word("Iteration"), <<"2">> >>
Zeros(n) == [k \in 1 .. n |-> "0"]
\* spellings of numerals, and tokens that are none: the pairs are the token
\* at the cells of ones and the token at the remaining cells
TokenPairs ==
    { << <<"1">>, <<"3">> >>,
      << <<"1">>, <<"-", "1">> >>,
      << <<"1">>, <<"1", "0">> >>,
      << <<"1">>, <<"1", "_", "0">> >>,
      << <<"0", "1">>, <<"0", "0">> >>,
      << <<"+", "1">>, <<"-", "0">> >>,
      << <<"0", "_", "1">>, <<"1", "1">> >>,
      << <<"1">>, <<"1", ".", "0">> >>,
      << <<"1">>, <<"1", "_", "_", "0">> >>,
      << <<"1">>, <<"_", "1">> >>,
      << <<"1">>, <<"+">> >>,
      << <<"1">>, Int64Max >>,
      << <<"1">>, <<"-">> \o Int64Min >>,
      << <<"1">>, Int64Min >>,
      << <<"1">>, <<"1">> \o Int64Max >>,
      << Int64Min, <<"x">> >>,
      << <<"x">>, Int64Min >>,
      \* numerals at and beyond the interpreter's default limit of digits
      << Zeros(default_max_str_digits - 1) \o <<"1">>, <<"0">> >>,
      << Zeros(default_max_str_digits) \o <<"1">>, <<"0">> >>,
      << <<"1">> \o Zeros(default_max_str_digits), <<"0">> >>,
      << <<"-">> \o Zeros(default_max_str_digits), <<"1">> >> }
\* sets of at most MaxOnes cells of an N x N mask
OnesFamily(N) ==
    { {f[k] : k \in 1 .. MaxOnes} \ {N * N} : f \in [1 .. MaxOnes -> 0 .. N * N] }
\* a few masks: empty, one diagonal cell, one off-diagonal cell, both
SmallOnes == { {}, {0}, {1}, {0, 1} }
AllCells(N) == 0 .. (N * N - 1)

\* a log file in the layout RSPt writes: text, the marker line, the mask of
\* all 2*norb spin-orbitals, text
StandardLog(ones, norb) ==
    TextFile(<<TextLine, MarkerLine>> \o MaskLines(ones, 2 * norb, "0")
             \o <<TextLine>>)
\* other layouts of the log file
LogLayouts(ones, norb, spinpol) ==
    LET N == 2 * norb
        size == nc(norb, spinpol)
        good == MaskLines(ones, N, "0")
    IN  { MissingFile,
          TextFile(<<>>),
          \* no marker at all
          TextFile(<<TextLine>> \o good),
          \* a second marker with another mask further down
          TextFile(<<MarkerLine>> \o good \o <<TextLine, MarkerLine>>
                   \o MaskLines(AllCells(N), N, "0")),
          \* mask-like lines above the marker
          TextFile(MaskLines(AllCells(N), N, "0") \o <<MarkerLine>> \o good),
          \* the file ends before 2*norb lines follow the marker
          TextFile(<<TextLine, MarkerLine>> \o SubSeq(good, 1, N - 1)),
          \* a second marker right after the first
          TextFile(<<MarkerLine, MarkerLine>> \o good),
          \* tokens other than 0 and 1
          TextFile(<<MarkerLine>> \o MaskLines(ones, N, "2")),
          \* the marker followed by nc lines of nc tokens, then text
          TextFile(<<MarkerLine>> \o MaskLines(ones, size, "0") \o <<TextLine>>),
          \* the marker followed by nc lines of nc tokens, then more numbers
          TextFile(<<MarkerLine>> \o MaskLines(ones, size, "0")
                   \o MaskLines({}, size, "0")) }
        \cup { TextFile(<<TextLine, MarkerLine>>
                         \o MaskLinesOf(ones, N, p[1], p[2])) : p \in TokenPairs }

HybArgs(fr, fi, norb, spinpol, fro, fio, out, full) ==
    [file_re |-> fr, file_im |-> fi, norb |-> norb, spinpol |-> spinpol,
     file_re_off |-> fro, file_im_off |-> fio, outfile |-> out,
     return_as_full_matrix |-> full]

\* every mask of at most MaxOnes true cells, on well-formed inputs
MaskSweep(a) ==
    \E norb \in 1 .. MaxNorb, spinpol \in BOOLEAN :
        \E ones \in OnesFamily(2 * norb) :
            a = HybArgs(Table(2, 4 + nc(norb, spinpol), 0),
                        Table(2, 4 + nc(norb, spinpol), 1000),
                        norb, spinpol,
                        Table(2, 1 + MaxOnes, 2000), Table(2, 1 + MaxOnes, 3000),
                        StandardLog(ones, norb), FALSE)

\* off-diagonal tables of several shapes against a few masks
OffFiles(R, base) ==
    { Table(rr, cc, base) : rr \in {R, R + 1}, cc \in 2 .. 4 }
        \cup { MissingFile, Table(1, 3, base), Table(R, 1, base) }
OffSweep(a) ==
    \E norb \in 1 .. MaxNorb, spinpol \in BOOLEAN, R \in 2 .. MaxRows,
       seed \in 0 .. MaxSeed, ones \in SmallOnes, full \in BOOLEAN :
        \E fro \in OffFiles(R, 2000 + seed),
           fio \in { Table(R, 4, 3000 + seed), Table(R, 2, 3000 + seed),
                     MissingFile } :
            a = HybArgs(Table(R, 4 + nc(norb, spinpol), seed),
                        Table(R, 4 + nc(norb, spinpol), 1000 + seed),
                        norb, spinpol, fro, fio, StandardLog(ones, norb), full)

\* log files of several layouts against a few masks
LogSweep(a) ==
    \E norb \in 1 .. MaxNorb, spinpol \in BOOLEAN, ones \in SmallOnes :
        \E out \in LogLayouts(ones, norb, spinpol) :
            a = HybArgs(Table(2, 4 + nc(norb, spinpol), 0),
                        Table(2, 4 + nc(norb, spinpol), 1000),
                        norb, spinpol, Table(2, 3, 2000), Table(2, 3, 3000),
                        out, FALSE)

\* diagonal files of several shapes against every combination of presence
\* of the three optional arguments
DiagFiles(size, seed) ==
    { Table(R, C, seed) : R \in 1 .. MaxRows, C \in (3 + size) .. (5 + size) }
        \cup { MissingFile, TextFile(<<>>), Ragged(4 + size, seed) }
ImagFor(f, size, seed) ==
    LET R == Len(f.rows)
        C == IF R = 0 THEN 4 + size ELSE Len(f.rows[1])
    IN  { Table(R, C, 1000 + seed), Table(R + 1, C, 1000 + seed),
          Table(R, 4 + size, 1000 + seed), MissingFile }
Optional(f) == { NoneFile, f }
DiagSweep(a) ==
    \E norb \in 1 .. MaxNorb, spinpol \in BOOLEAN, seed \in 0 .. MaxSeed,
       full \in BOOLEAN :
        \E fr \in DiagFiles(nc(norb, spinpol), seed) :
            \E fi \in ImagFor(fr, nc(norb, spinpol), seed),
               fro \in Optional(Table(2, 3, 2000)),
               fio \in Optional(Table(2, 3, 3000)),
               out \in Optional(StandardLog({1}, norb)) :
                a = HybArgs(fr, fi, norb, spinpol, fro, fio, out, full)

InitHyb ==
    /\ op = "hyb"
    /\ pc = "call"
    /\ result = NoResult
    /\ \/ MaskSweep(args) /\ int_max_str_digits = default_max_str_digits
       \/ OffSweep(args) /\ int_max_str_digits = default_max_str_digits
       \/ LogSweep(args) /\ int_max_str_digits \in {0, default_max_str_digits}
       \/ DiagSweep(args) /\ int_max_str_digits = default_max_str_digits

CallHyb ==
    /\ pc = "call"
    /\ op = "hyb"
    /\ result' = hyb(args.file_re, args.file_im, args.norb, args.spinpol,
                     args.file_re_off, args.file_im_off, args.outfile,
                     args.return_as_full_matrix)
    /\ pc' = "done"
    /\ UNCHANGED <<op, args, int_max_str_digits>>

NextHyb == CallHyb
SpecHyb == InitHyb /\ [][NextHyb]_vars

(***************************************************************************)
(* self_energy, readfile.py:104-150.  Both off-diagonal files are read     *)
(* (lines 127-128) whether or not they were given, and sys.exit at line    *)
(* 135 precedes the only return statement.                                 *)
(***************************************************************************)
\* lines 129-150 without the sys.exit of line 135, returning at line 150
self_energy_construct_returning(w, sig_diagonal, size) ==
    ReturnFull(w, diagonal_fill(sig_diagonal, size, len(w)))

\* lines 129-150: sig is allocated, its diagonal is filled, and the call
\* ends in sys.exit before any off-diagonal entry is set
self_energy_construct(w, sig_diagonal, size) ==
    Exit("Implementation not complete...")

self_energy(file_re, file_im, spinpol, file_re_off, file_im_off) ==
    LET re0 == loadtxt(file_re)
        im0 == loadtxt(file_im)
        w == mesh(re0)
        re == ScaleEV(Transpose(ColSlice(re0, 4, re0.m)))
        im == ScaleEV(Transpose(ColSlice(im0, 4, im0.m)))
        sig_diagonal == ComplexOf(re, im)
        re_off == loadtxt(file_re_off)
        im_off == loadtxt(file_im_off)
    IN  IF ~re0.ok THEN Raise(re0.exc)
        ELSE IF ~im0.ok THEN Raise(im0.exc)
        ELSE IF re0.ndim < 2 \/ im0.ndim < 2 THEN Raise("IndexError")
        ELSE IF ~Broadcastable(re, im) THEN Raise("ValueError")
        ELSE IF ~re_off.ok THEN Raise(re_off.exc)
        ELSE IF re_off.ndim < 2 THEN Raise("IndexError")
        ELSE IF ~im_off.ok THEN Raise(im_off.exc)
        ELSE IF im_off.ndim < 2 THEN Raise("IndexError")
        ELSE self_energy_construct(w, sig_diagonal, sig_diagonal.n)

SelfEnergyArgs(fr, fi, spinpol, fro, fio) ==
    [file_re |-> fr, file_im |-> fi, spinpol |-> spinpol,
     file_re_off |-> fro, file_im_off |-> fio]
InitSelfEnergy ==
    /\ op = "self_energy"
    /\ pc = "call"
    /\ int_max_str_digits = default_max_str_digits
    /\ result = NoResult
    /\ \E size \in 1 .. 2 * MaxNorb, seed \in 0 .. MaxSeed, spinpol \in BOOLEAN :
          \E fr \in DiagFiles(size, seed) :
              \E fi \in ImagFor(fr, size, seed),
                 fro \in { NoneFile, MissingFile, Table(2, 3, 2000 + seed),
                           Table(1, 3, 2000 + seed) },
                 fio \in { NoneFile, MissingFile, Table(2, 3, 3000 + seed),
                           Table(2, 1, 3000 + seed) } :
                  args = SelfEnergyArgs(fr, fi, spinpol, fro, fio)

CallSelfEnergy ==
    /\ pc = "call"
    /\ op = "self_energy"
    /\ result' = self_energy(args.file_re, args.file_im, args.spinpol,
                             args.file_re_off, args.file_im_off)
    /\ pc' = "done"
    /\ UNCHANGED <<op, args, int_max_str_digits>>

NextSelfEnergy == CallSelfEnergy
SpecSelfEnergy == InitSelfEnergy /\ [][NextSelfEnergy]_vars

(***************************************************************************)
(* pdos, readfile.py:153-168.                                              *)
(***************************************************************************)
\* x/eV, kept as the exact quotient
Quot(x, d) == [num |-> x, den |-> d]

\* tmp[:, k + i]*eV instead of tmp[:, k + i]/eV
density_times(x) == Quot(eV * x, 1)

\* one entry of tmp[:, k + i]/eV
density(x) == Quot(x, eV)

\* the same offset for both spin settings
pdos_offset_same(spinpol) == 2

\* k = 7 if spinpol else 2
pdos_offset(spinpol) == IF spinpol THEN 7 ELSE 2
\* the table column that row i of p is read from: k + i for i in range(nc)
pdos_columns(norb, spinpol) ==
    [i \in Range(nc(norb, spinpol)) |-> pdos_offset(spinpol) + i]

pdos(filename, norb, spinpol) ==
    LET size == nc(norb, spinpol)
        tmp == loadtxt(filename)
        w == mesh(tmp)
        col == pdos_columns(norb, spinpol)
    IN  IF ~tmp.ok THEN Raise(tmp.exc)
        ELSE IF tmp.ndim < 2 THEN Raise("IndexError")
        ELSE IF \E i \in Range(size) : col[i] >= tmp.m THEN Raise("IndexError")
        ELSE ReturnTable(w, Arr(size, len(w),
                 [i \in Range(size) |-> [m \in Range(len(w)) |->
                     density(tmp.d[m][col[i]])]]))

PdosArgs(f, norb, spinpol) ==
    [filename |-> f, norb |-> norb, spinpol |-> spinpol]
\* tables just too narrow, exact and wider than either layout needs
PdosFiles(norb, seed) ==
    { Table(R, C, seed) :
        R \in 1 .. MaxRows,
        C \in { 1 + norb, 2 + norb, 6 + 2 * norb, 7 + 2 * norb, 8 + 2 * norb } }
        \cup { MissingFile, Ragged(7 + 2 * norb, seed) }
InitPdos ==
    /\ op = "pdos"
    /\ pc = "call"
    /\ int_max_str_digits = default_max_str_digits
    /\ result = NoResult
    /\ \E norb \in 1 .. MaxNorbPdos, seed \in 0 .. MaxSeed, spinpol \in BOOLEAN :
          \E f \in PdosFiles(norb, seed) :
              args = PdosArgs(f, norb, spinpol)

CallPdos ==
    /\ pc = "call"
    /\ op = "pdos"
    /\ result' = pdos(args.filename, args.norb, args.spinpol)
    /\ pc' = "done"
    /\ UNCHANGED <<op, args, int_max_str_digits>>

NextPdos == CallPdos
SpecPdos == InitPdos /\ [][NextPdos]_vars

(***************************************************************************)
(* The three readers together.                                             *)
(***************************************************************************)
Init == InitHyb \/ InitSelfEnergy \/ InitPdos
Next == CallHyb \/ CallSelfEnergy \/ CallPdos
Spec == Init /\ [][Next]_vars

(***************************************************************************)
(* Vocabulary of the properties, stated on the arguments of the call (the  *)
(* text of the files) and on its outcome.                                  *)
(***************************************************************************)
Done(o) == pc = "done" /\ op = o
\* a readable table: at least two rows and two columns, rows of equal length
IsTable(f) ==
    /\ f.given /\ f.exists
    /\ Len(f.rows) >= 2
    /\ Len(f.rows[1]) >= 2
    /\ \A r \in 1 .. Len(f.rows) : Len(f.rows[r]) = Len(f.rows[1])
Rows(f) == Len(f.rows)
Cols(f) == Len(f.rows[1])
\* the number in row m, column c of the file, both counted from 0
Cell(f, m, c) == f.rows[m + 1][c + 1]
SpinOrbitals == IF args.spinpol THEN 2 * args.norb ELSE args.norb
\* valid diagonal files for hyb: two tables over the same mesh, each with
\* the four leading columns and one column per spin-orbital
ValidDiagonal ==
    /\ IsTable(args.file_re) /\ IsTable(args.file_im)
    /\ Rows(args.file_re) = Rows(args.file_im)
    /\ Cols(args.file_re) >= 4 + SpinOrbitals
    /\ Cols(args.file_im) >= 4 + SpinOrbitals
NSupplied ==
    (IF args.file_re_off.given THEN 1 ELSE 0)
    + (IF args.file_im_off.given THEN 1 ELSE 0)
    + (IF args.outfile.given THEN 1 ELSE 0)
WrongInput == result.kind = "exit" /\ result.msg = "Wrong input parameters."
Returned(form) == result.kind = "return" /\ result.form = form
\* eV*(re + 1j*im) of column 4+i of the diagonal files at mesh point m
DiagonalEntry(i, m) ==
    Cx(eV * Cell(args.file_re, m, 4 + i), eV * Cell(args.file_im, m, 4 + i))

\* C1: with readable diagonal files, hyb ends in 'Wrong input parameters.'
\* exactly when one or two of file_re_off, file_im_off, outfile are given;
\* with none or all three given it never ends in that error, whatever the
\* files hold.
C1_ArgumentValidation ==
    Done("hyb") =>
        /\ NSupplied \in {0, 3} => ~WrongInput
        /\ ValidDiagonal => (WrongInput <=> NSupplied \in {1, 2})
C1_Witness ==
    Done("hyb") /\ ValidDiagonal /\ NSupplied = 1 /\ WrongInput

\* C5: on valid diagonal files, without off-diagonal arguments and without
\* return_as_full_matrix, hyb returns the mesh eV*column 0 (one value per
\* row of the file) and a table of nc rows and R columns whose entry [i][m]
\* is eV*(re[m][4+i] + 1j*im[m][4+i]).
C5_DiagonalPath ==
    (Done("hyb") /\ ValidDiagonal /\ NSupplied = 0
        /\ ~args.return_as_full_matrix) =>
        /\ Returned("table")
        /\ len(result.w) = Rows(args.file_re)
        /\ \A m \in Range(Rows(args.file_re)) :
              result.w[m] = eV * Cell(args.file_re, m, 0)
        /\ result.table.n = SpinOrbitals
        /\ result.table.m = Rows(args.file_re)
        /\ \A i \in Range(SpinOrbitals) : \A m \in Range(Rows(args.file_re)) :
              result.table.d[i][m] = DiagonalEntry(i, m)
C5_Witness ==
    /\ Done("hyb") /\ ValidDiagonal /\ NSupplied = 0
    /\ ~args.return_as_full_matrix
    /\ args.spinpol /\ args.norb = 2 /\ Rows(args.file_re) = 3
    /\ Returned("table")

\* the mask hyb works with: what the pipeline prints, parsed
MaskOf == mask(cmd(args.outfile, args.norb), args.norb, args.spinpol)
\* what hyb returns for the same diagonal files without the optional arguments
DiagonalOnly ==
    hyb(args.file_re, args.file_im, args.norb, args.spinpol,
        NoneFile, NoneFile, NoneFile, FALSE)
FullReturned == Done("hyb") /\ Returned("full")

\* C2 as stated: whenever hyb returns a full matrix h, for any mask content,
\* h[i,i,:] equals row i of the diagonal-only table for every i.
C2_Original ==
    FullReturned =>
        LET diagonal == DiagonalOnly
        IN  \A i \in Range(SpinOrbitals) : \A m \in Range(len(result.w)) :
                result.full[i][i][m] = diagonal.table.d[i][m]
\* C2, amended: whenever hyb returns a full matrix h, h[i,i,:] equals row i
\* of the diagonal-only table for every i whose mask entry mask[i,i] is not
\* true (every i when no off-diagonal arguments are given).
C2_RoundTrip ==
    FullReturned =>
        LET diagonal == DiagonalOnly
            msk == MaskOf
        IN  /\ diagonal.table.n = SpinOrbitals
            /\ \A i \in Range(SpinOrbitals) :
                  ~(NSupplied = 3 /\ msk.d[i][i]) =>
                      \A m \in Range(len(result.w)) :
                          result.full[i][i][m] = diagonal.table.d[i][m]
C2_Witness ==
    /\ FullReturned /\ NSupplied = 3 /\ SpinOrbitals >= 2
    /\ MaskOf.d[0][0] /\ ~MaskOf.d[1][1] /\ MaskOf.d[0][1]

\* the cells of an n x n mask msk that are true
TrueCells(msk, n) == { c \in Range(n) \X Range(n) : msk.d[c[1]][c[2]] }
\* number of cells of true scanned before (i, j) in the column-major scan
Rank(true, i, j) ==
    Cardinality({ c \in true : c[2] < j \/ (c[2] = j /\ c[1] < i) })
OffDiagonalEntry(k, m) ==
    Cx(eV * Cell(args.file_re_off, m, 1 + k),
       eV * Cell(args.file_im_off, m, 1 + k))

\* C8: when hyb returns from the off-diagonal branch, every cell (i,j) holds
\* the diagonal function (row i of the diagonal table, if i = j) plus, if
\* mask[i,j] is true, off-diagonal input column k, where (i,j) is the k-th
\* true cell of the column-major scan; distinct true cells get distinct
\* columns, and a cell with mask[i,j] false and i # j is zero at every mesh
\* point.
C8_OffDiagonalFill ==
    (FullReturned /\ NSupplied = 3) =>
        LET diagonal == DiagonalOnly
            msk == MaskOf
            true == TrueCells(msk, SpinOrbitals)
        IN  /\ \A i \in Range(SpinOrbitals) : \A j \in Range(SpinOrbitals) :
                  /\ \A m \in Range(len(result.w)) :
                        result.full[i][j][m] =
                            CAdd(IF i = j THEN diagonal.table.d[i][m] ELSE CZero,
                                 IF <<i, j>> \in true
                                 THEN OffDiagonalEntry(Rank(true, i, j), m)
                                 ELSE CZero)
                  /\ (<<i, j>> \notin true /\ i # j) =>
                        \A m \in Range(len(result.w)) :
                            result.full[i][j][m] = CZero
            /\ Cardinality({ Rank(true, c[1], c[2]) : c \in true })
                  = Cardinality(true)
C8_Witness ==
    /\ FullReturned /\ NSupplied = 3 /\ SpinOrbitals >= 2
    /\ MaskOf.d[0][1] /\ MaskOf.d[1][0]

\* the log file as text
LogLines == IF args.outfile.exists THEN args.outfile.rows ELSE <<>>
MarkerAt(p) ==
    \E k \in 1 .. Len(LogLines[p]) : LogLines[p][k] = Word(search_phrase)
HasMarker == \E p \in 1 .. Len(LogLines) : MarkerAt(p)
FirstMarker ==
    CHOOSE p \in 1 .. Len(LogLines) :
        MarkerAt(p) /\ \A q \in 1 .. (p - 1) : ~MarkerAt(q)
\* n lines of n tokens, each from toks, follow line p
MaskTextAfter(p, n, toks) ==
    /\ p + n <= Len(LogLines)
    /\ \A q \in (p + 1) .. (p + n) :
          /\ Len(LogLines[q]) = n
          /\ \A t \in 1 .. n : LogLines[q][t] \in toks
\* n lines of n tokens, each a numeral of a 64-bit integer, follow line p
MaskNumeralsAfter(p, n) ==
    /\ p + n <= Len(LogLines)
    /\ \A q \in (p + 1) .. (p + n) :
          /\ Len(LogLines[q]) = n
          /\ \A t \in 1 .. n :
                IsInt(LogLines[q][t]) /\ FitsInt64(LogLines[q][t])
\* the token of mask row i, column j in the text after the first marker
MaskToken(i, j) == LogLines[FirstMarker + 1 + i][j + 1]
\* that token is a numeral of the integer 1
TextOne(i, j) == IsOne(MaskToken(i, j))

\* C7 as stated: with all three off-diagonal arguments given, readable
\* tables and no marker phrase in the log file, hyb ends in the error
\* 'Mask in out-file is absent.'.
C7_MaskNotFound ==
    (Done("hyb") /\ NSupplied = 3 /\ ValidDiagonal
        /\ IsTable(args.file_re_off) /\ IsTable(args.file_im_off)
        /\ ~HasMarker) =>
        result.kind = "exit" /\ result.msg = "Mask in out-file is absent."

\* C9 as stated: for both spin settings the mask is the nc lines of nc
\* tokens that follow the first marker line, an nc x nc matrix.
C9_Original ==
    (Done("hyb") /\ NSupplied = 3 /\ HasMarker
        /\ MaskTextAfter(FirstMarker, SpinOrbitals, {<<"0">>, <<"1">>})) =>
        LET msk == MaskOf
        IN  /\ msk.ok
            /\ msk.n = SpinOrbitals
            /\ \A i \in Range(SpinOrbitals) : \A j \in Range(SpinOrbitals) :
                  msk.d[i][j] = TextOne(i, j)
\* C9, amended: for both spin settings the mask is parsed from the 2*norb
\* lines (2*norb tokens each, numerals of 64-bit integers within the
\* interpreter's limit of digits, true iff the token
\* reads as the integer 1, however it is spelled) that follow the first
\* marker line, whatever follows further down, later markers included; the
\* mask used is that 2*norb x 2*norb matrix, cut to its top-left
\* norb x norb block when not spin-polarized, and the returned off-diagonal
\* cells are non-zero exactly where it is true.
C9_MaskRecovery ==
    (Done("hyb") /\ NSupplied = 3 /\ HasMarker
        /\ MaskNumeralsAfter(FirstMarker, 2 * args.norb)) =>
        LET msk == MaskOf
        IN  /\ msk.ok
            /\ msk.n = SpinOrbitals
            /\ \A i \in Range(SpinOrbitals) : \A j \in Range(SpinOrbitals) :
                  /\ msk.d[i][j] = TextOne(i, j)
                  /\ (Returned("full") /\ i # j) =>
                        \A m \in Range(len(result.w)) :
                            (result.full[i][j][m] # CZero) = TextOne(i, j)
C9_Witness ==
    /\ Done("hyb") /\ NSupplied = 3 /\ Returned("full") /\ ~args.spinpol
    /\ args.norb = 2
    /\ HasMarker /\ MaskNumeralsAfter(FirstMarker, 2 * args.norb)
    /\ \E q \in (FirstMarker + 1) .. Len(LogLines) : MarkerAt(q)
    /\ TextOne(0, 1)

\* valid diagonal files for self_energy: two tables of the same shape with
\* the four leading columns and at least one function column
ValidSelfEnergyDiagonal ==
    /\ IsTable(args.file_re) /\ IsTable(args.file_im)
    /\ Rows(args.file_re) = Rows(args.file_im)
    /\ Cols(args.file_re) = Cols(args.file_im)
    /\ Cols(args.file_re) >= 5
Unimplemented ==
    result.kind = "exit" /\ result.msg = "Implementation not complete..."

\* C3 as stated: self_energy on valid diagonal files, with neither
\* file_re_off nor file_im_off given, does not fail and returns the mesh
\* and the diagonal table.
C3_DiagonalOnly ==
    (Done("self_energy") /\ ValidSelfEnergyDiagonal
        /\ ~args.file_re_off.given /\ ~args.file_im_off.given) =>
        /\ result.kind = "return"
        /\ \A m \in Range(Rows(args.file_re)) :
              result.w[m] = eV * Cell(args.file_re, m, 0)
        /\ \A i \in Range(Cols(args.file_re) - 4) :
              \A m \in Range(Rows(args.file_re)) :
                  result.table.d[i][m] = DiagonalEntry(i, m)

\* C4 as stated: every call of self_energy with the off-diagonal files
\* given ends in 'Implementation not complete...', valid inputs or not.
C4_Original ==
    (Done("self_energy") /\ args.file_re_off.given /\ args.file_im_off.given)
        => Unimplemented
\* C4, amended: no call of self_energy returns a result; a call with both
\* off-diagonal files given ends in 'Implementation not complete...' when
\* the two diagonal and the two off-diagonal files are all readable tables
\* (an unreadable one ends the call in its own read or index error first).
C4_Unimplemented ==
    Done("self_energy") =>
        /\ result.kind # "return"
        /\ (ValidSelfEnergyDiagonal
              /\ IsTable(args.file_re_off) /\ IsTable(args.file_im_off))
              => Unimplemented
C4_Witness ==
    /\ Done("self_energy") /\ ValidSelfEnergyDiagonal
    /\ IsTable(args.file_re_off) /\ IsTable(args.file_im_off)
    /\ Unimplemented

\* C6: on a readable table with enough columns pdos returns the mesh
\* eV*column 0 and nc rows, row i being table column k+i divided by eV
\* (k = 7 if spinpol else 2): the mesh is multiplied by eV, the densities
\* are divided by it.
C6_PdosExtraction ==
    LET k == IF args.spinpol THEN 7 ELSE 2
    IN  (Done("pdos") /\ IsTable(args.filename)
            /\ Cols(args.filename) >= k + SpinOrbitals) =>
            /\ Returned("table")
            /\ len(result.w) = Rows(args.filename)
            /\ \A m \in Range(Rows(args.filename)) :
                  result.w[m] = eV * Cell(args.filename, m, 0)
            /\ result.table.n = SpinOrbitals
            /\ result.table.m = Rows(args.filename)
            /\ \A i \in Range(SpinOrbitals) :
                  \A m \in Range(Rows(args.filename)) :
                      /\ result.table.d[i][m].num = Cell(args.filename, m, k + i)
                      /\ result.table.d[i][m].den = eV
C6_Witness ==
    /\ Done("pdos") /\ args.spinpol /\ args.norb = 1
    /\ IsTable(args.filename) /\ Cols(args.filename) = 9
    /\ Returned("table")
    /\ result.table.d[1][0].num = Cell(args.filename, 0, 8)

\* the table columns pdos reads for this norb under a spin setting
ColumnsRead(spinpol) ==
    { pdos_columns(args.norb, spinpol)[i] :
        i \in DOMAIN pdos_columns(args.norb, spinpol) }

\* C10 as stated: for every norb >= 1 the columns pdos reads with
\* spinpol=False and those it reads with spinpol=True are disjoint.
C10_Original ==
    Done("pdos") => ColumnsRead(FALSE) \cap ColumnsRead(TRUE) = {}
\* C10, amended: the two column sets are disjoint for norb from 1 to 5; from
\* norb = 6 on both settings read column 7.  The columns of a returned
\* table are those of the setting of the call.
C10_ColumnRanges ==
    Done("pdos") =>
        /\ args.norb <= 5 => ColumnsRead(FALSE) \cap ColumnsRead(TRUE) = {}
        /\ args.norb >= 6 => 7 \in ColumnsRead(FALSE) \cap ColumnsRead(TRUE)
        /\ ColumnsRead(FALSE) = 2 .. (1 + args.norb)
        /\ ColumnsRead(TRUE) = 7 .. (6 + 2 * args.norb)
C10_Witness ==
    /\ Done("pdos") /\ args.norb = 5 /\ Returned("table")
    /\ ColumnsRead(FALSE) \cap ColumnsRead(TRUE) = {}
====
